---- MODULE Spec2Model ----
(***************************************************************************)
(* A model of tempy's pipeline: the rc file loader TempyRC, the            *)
(* command-line parser Args and the merge Config (src/tempy/config.py,     *)
(* src/tempy/parser.py), run in the order of Config.from_default; then the *)
(* fetch and the normalization of WeatherAPI (src/tempy/data.py) and the   *)
(* rendering of Report (src/tempy/report.py), run in the order of          *)
(* Report.from_weatherapi and main.                                        *)
(*                                                                         *)
(* A Python str is a sequence of atoms.  An atom is a word without         *)
(* whitespace, '=' or '#' (such as "nyc"), or one of the single characters *)
(* " ", "=" and "#".  The empty str is <<>>.  A text file is the sequence  *)
(* of its lines, each without its line terminator (str.strip removes it).  *)
(* Python's None is the reserved value None below.                         *)
(***************************************************************************)
EXTENDS Integers, Sequences, FiniteSets, TLC

VARIABLES
    os_name,     \* os.name of the interpreter: "posix" or "nt"
    dirs,        \* which of the rc path's ancestors exist: "parent" is path.parent, "gp" is path.parent.parent
    rc_exists,   \* whether the rc path is an existing file
    rc_content,  \* the lines of the rc file (<<>> while it does not exist)
    argv,        \* sys.argv[1:], a sequence of str
    pc,          \* position of the run: "start", "rc_loaded", "args_parsed", "resolved",
                 \* "fetched", "parsed", "rendered", "exited"
    tempyrc,     \* the TempyRC dict (empty until constructed)
    args,        \* the Args dict (empty until constructed)
    config,      \* the Config dict (empty until constructed)
    exit_code,   \* process exit status, -1 while the process runs
    diag,        \* the diagnostic the process printed when it ended, a str
    raised,      \* the exception that ended the process: "", "SystemExit" or "RuntimeError"
    fs0,         \* history: the file system the run started in
    requests,    \* the HTTP requests the process has sent, in order
    response,    \* the HTTP response the process received (empty until then)
    data,        \* WeatherAPI.data, the payload (empty until fetched)
    report,      \* the arguments of Report built by WeatherAPI.parse (empty until then)
    rendered,    \* what console.print has written to the terminal, in order
    race         \* the invocations that load one rc path concurrently (empty outside that scenario)

vars == <<os_name, dirs, rc_exists, rc_content, argv, pc, tempyrc, args, config,
          exit_code, diag, raised, fs0, requests, response, data, report, rendered, race>>

fs == <<dirs, rc_exists, rc_content>>

\* the state of the stages after the configuration
later == <<requests, response, data, report, rendered, race>>

-----------------------------------------------------------------------------
(* Bounds *)

MaxRcLines == 2      \* longest rc file, in lines
MaxArgv == 3         \* longest command line, in tokens

-----------------------------------------------------------------------------
(* Python values *)

None == <<"<None>">>

\* bool(v) for a str or None
Truthy(v) == v # None /\ v # <<>>

LOCATION == <<"location">>
UNITS == <<"units">>
API_KEY == <<"api_key">>

VALID_OPTIONS == <<LOCATION, UNITS, API_KEY>>

ValidSet == {VALID_OPTIONS[i] : i \in 1..Len(VALID_OPTIONS)}

EmptyDict == <<>>

\* nothing sent, received, normalized or rendered yet
NothingLater ==
    /\ requests = <<>>
    /\ response = EmptyDict
    /\ data = EmptyDict
    /\ report = EmptyDict
    /\ rendered = <<>>
    /\ race = <<>>

\* d[k] = v on a dict
DictSet(d, k, v) == [x \in (DOMAIN d) \cup {k} |-> IF x = k THEN v ELSE d[x]]

-----------------------------------------------------------------------------
(* str methods *)

IsSpace(a) == a = " "

RECURSIVE LStrip(_)
LStrip(s) == IF s # <<>> /\ IsSpace(Head(s)) THEN LStrip(Tail(s)) ELSE s

RECURSIVE RStrip(_)
RStrip(s) == IF s # <<>> /\ IsSpace(s[Len(s)]) THEN RStrip(SubSeq(s, 1, Len(s) - 1)) ELSE s

\* str.strip()
Strip(s) == RStrip(LStrip(s))

LowerAtom(a) ==
    CASE a = "NYC" -> "nyc"
      [] a = "Units" -> "units"
      [] a = "K1" -> "k1"
      [] a = "Partly" -> "partly"
      [] OTHER -> a

\* str.lower()
Lower(s) == [i \in 1..Len(s) |-> LowerAtom(s[i])]

\* str.startswith(a) for a one-character a
StartsWith(s, a) == s # <<>> /\ Head(s) = a

\* index of the first occurrence of atom a in s, 0 when there is none
FirstIndex(s, a) ==
    IF \E i \in 1..Len(s) : s[i] = a
    THEN CHOOSE i \in 1..Len(s) : s[i] = a /\ \A j \in 1..(i - 1) : s[j] # a
    ELSE 0

\* str.split(sep): the list of all parts between occurrences of sep
RECURSIVE Split(_, _)
Split(s, sep) ==
    LET i == FirstIndex(s, sep)
    IN  IF i = 0 THEN <<s>>
        ELSE <<SubSeq(s, 1, i - 1)>> \o Split(SubSeq(s, i + 1, Len(s)), sep)

RECURSIVE Join_without_separator(_, _)
Join_without_separator(sep, parts) ==
    IF parts = <<>> THEN <<>>
    ELSE parts[1] \o Join_without_separator(sep, Tail(parts))

\* sep.join(parts)
RECURSIVE Join(_, _)
Join(sep, parts) ==
    IF parts = <<>> THEN <<>>
    ELSE IF Len(parts) = 1 THEN parts[1]
    ELSE parts[1] \o sep \o Join(sep, Tail(parts))

-----------------------------------------------------------------------------
(* parser.parse_rc *)

\* the list comprehension: every part of the line, stripped and lowercased
SplitLine(line) ==
    LET parts == Split(line, "=")
    IN  [i \in 1..Len(parts) |-> Lower(Strip(parts[i]))]

ParseLine_comments_parsed(parsed, raw) ==
    LET line == Strip(raw)
        split == SplitLine(line)
    IN  IF Len(split) >= 2 THEN DictSet(parsed, split[1], split[2])
        ELSE parsed

\* one turn of the loop over the lines: the dict after the line
ParseLine(parsed, raw) ==
    LET line == Strip(raw)
        split == SplitLine(line)
    IN  IF Len(line) > 0 /\ StartsWith(line, "#") THEN parsed
        ELSE IF Len(split) >= 2 THEN DictSet(parsed, split[1], split[2])
        ELSE parsed

RECURSIVE ParseFrom(_, _)
ParseFrom(contents, parsed) ==
    IF contents = <<>> THEN parsed
    ELSE ParseFrom(Tail(contents), ParseLine(parsed, Head(contents)))

parse_rc(contents) == ParseFrom(contents, EmptyDict)

-----------------------------------------------------------------------------
(* config.TempyRC *)

\* the skeleton rc file shipped with the package (tempy/tempyrc)
Skel == << <<"location", "=">>, <<"units", "=">>, <<"api_key", "=">> >>

\* {option: "" for option in VALID_OPTIONS}
AllEmpty == [o \in ValidSet |-> <<>>]

\* the first loop of the else branch: every missing option is set to ""
FillMissing(parsed) ==
    [k \in (DOMAIN parsed) \cup ValidSet |-> IF k \in DOMAIN parsed THEN parsed[k] ELSE <<>>]

\* the second loop of the else branch deletes from the dict it iterates over:
\* after the first deletion the dict iterator raises RuntimeError
DeleteRaises(parsed) == \E k \in DOMAIN parsed : k \notin ValidSet

MkdirRaises_always(d) == TRUE

MkdirRaises_never(d) == FALSE

\* os.mkdir(path.parent) raises FileNotFoundError when path.parent.parent is missing
MkdirRaises(d) == "gp" \notin d

NoSuchPath(p) == <<"No such path: '", p, "'">>

_copy_skel_without_mkdir(name, d) == [ok |-> TRUE, dirs |-> d, msg |-> <<>>]

\* TempyRC._copy_skel on directories d: whether it returns, the directories
\* afterwards and the argument of sys.exit when it does not return
_copy_skel(name, d) ==
    IF "parent" \notin d
    THEN IF name = "posix"
         THEN IF MkdirRaises(d)
              THEN [ok |-> FALSE, dirs |-> d, msg |-> NoSuchPath("gp")]
              ELSE [ok |-> TRUE, dirs |-> d \cup {"parent"}, msg |-> <<>>]
         ELSE [ok |-> FALSE, dirs |-> d, msg |-> NoSuchPath("parent")]
    ELSE [ok |-> TRUE, dirs |-> d, msg |-> <<>>]

OpenRaises_always(exists) == TRUE

\* open(path, "r") raises FileNotFoundError
OpenRaises(exists) == ~exists

\* TempyRC.__init__(path)
LoadRc ==
    /\ pc = "start"
    /\ IF ~OpenRaises(rc_exists)
       THEN LET parsed == FillMissing(parse_rc(rc_content))
            IN  /\ UNCHANGED fs
                /\ IF DeleteRaises(parsed)
                   THEN /\ pc' = "exited"
                        /\ raised' = "RuntimeError"
                        /\ exit_code' = 1
                        /\ diag' = <<"RuntimeError: dictionary changed size during iteration">>
                        /\ UNCHANGED tempyrc
                   ELSE /\ pc' = "rc_loaded"
                        /\ tempyrc' = parsed
                        /\ UNCHANGED <<raised, exit_code, diag>>
       ELSE LET r == _copy_skel(os_name, dirs)
            IN  IF r.ok
                THEN /\ dirs' = r.dirs
                     /\ rc_exists' = TRUE
                     /\ rc_content' = Skel
                     /\ pc' = "rc_loaded"
                     /\ tempyrc' = AllEmpty
                     /\ UNCHANGED <<raised, exit_code, diag>>
                ELSE /\ pc' = "exited"
                     /\ raised' = "SystemExit"
                     /\ exit_code' = 1
                     /\ diag' = r.msg
                     /\ UNCHANGED <<fs, tempyrc>>
    /\ UNCHANGED <<os_name, argv, args, config, fs0, later>>

-----------------------------------------------------------------------------
(* Inputs of the rc loader *)

RcLines ==
    { <<>>,
      <<" ">>,
      <<"#", "location", "=", "NYC">>,
      <<" ", "#", "units", "=", "metric">>,
      <<"location", "=", "NYC">>,
      <<"location", "=">>,
      <<"location", "=", "new", " ", "york">>,
      <<" ", "Units", " ", "=", " ", "metric", " ">>,
      <<"units", "=", "metric">>,
      <<"units", "=", "imperial">>,
      <<"units", "=", "kelvin">>,
      <<"units">>,
      <<"api_key", "=", "K1">>,
      <<"api_key", "=", "k1", "=", "k2">>,
      <<"invalid", "=", "foo">>,
      <<"=", "foo">> }

\* all sequences over S of length at most n
SeqsUpTo(S, n) == UNION {[1..k -> S] : k \in 0..n}

RcFiles == SeqsUpTo(RcLines, MaxRcLines)

\* the file systems a run can start in: the rc file exists (with both
\* ancestors), or it is missing and the ancestors exist down to some level
FsInit(files) ==
    \/ /\ rc_exists = TRUE
       /\ rc_content \in files
       /\ dirs = {"gp", "parent"}
    \/ /\ rc_exists = FALSE
       /\ rc_content = <<>>
       /\ dirs \in {{}, {"gp"}, {"gp", "parent"}}

NotStarted ==
    /\ tempyrc = EmptyDict
    /\ args = EmptyDict
    /\ config = EmptyDict
    /\ exit_code = -1
    /\ diag = <<>>
    /\ raised = ""
    /\ fs0 = [dirs |-> dirs, rc_exists |-> rc_exists, rc_content |-> rc_content]
    /\ NothingLater

InitRc ==
    /\ os_name \in {"posix", "nt"}
    /\ FsInit(RcFiles)
    /\ argv = <<>>
    /\ pc = "start"
    /\ NotStarted

NextRc == LoadRc

SpecRc == InitRc /\ [][NextRc]_vars

-----------------------------------------------------------------------------
(* config.Args *)

UnitsFlags == {<<"-u">>, <<"--units">>}

KeyFlags == {<<"-k">>, <<"--key">>}

\* choices=["imperial", "metric"]
CHOICES == {<<"imperial">>, <<"metric">>}

\* a command-line token that argparse reads as an option string
IsFlag(tok) == tok \in UnitsFlags \cup KeyFlags

\* the namespace before parsing: units has no default (None), api_key has default ""
NoArgs == [err |-> FALSE, location |-> <<>>, closed |-> FALSE, units |-> None, api_key |-> <<>>]

\* argparse stores the argument of one option; the run of positionals seen so
\* far, if any, has been consumed by 'location'
TakeOption(st, flag, val) ==
    LET st1 == [st EXCEPT !.closed = (st.location # <<>>)]
    IN  IF flag \in UnitsFlags
        THEN IF val \in CHOICES THEN [st1 EXCEPT !.units = val] ELSE [st1 EXCEPT !.err = TRUE]
        ELSE [st1 EXCEPT !.api_key = val]

\* parser.parse_args over the remaining tokens: an option takes the next token
\* as its argument; positionals form one contiguous run (nargs="*")
RECURSIVE Scan(_, _)
Scan(rest, st) ==
    IF st.err \/ rest = <<>> THEN st
    ELSE IF IsFlag(Head(rest))
    THEN IF Len(rest) < 2 \/ IsFlag(rest[2])
         THEN [st EXCEPT !.err = TRUE]
         ELSE Scan(SubSeq(rest, 3, Len(rest)), TakeOption(st, Head(rest), rest[2]))
    ELSE IF st.closed
    THEN [st EXCEPT !.err = TRUE]
    ELSE Scan(Tail(rest), [st EXCEPT !.location = Append(@, Head(rest))])

parse_args(unparsed) == Scan(unparsed, NoArgs)

\* the dict Args is initialised with
ArgsDict(parsed) ==
    [o \in ValidSet |->
        IF o = LOCATION THEN Join(<<" ">>, parsed.location)
        ELSE IF o = UNITS THEN parsed.units
        ELSE parsed.api_key]

USAGE == "tempy <location> <optional args>"

\* Args.__init__(unparsed); an argparse error ends the process with status 2
ParseArgs ==
    /\ pc = "rc_loaded"
    /\ LET parsed == parse_args(argv)
       IN  IF parsed.err
           THEN /\ pc' = "exited"
                /\ raised' = "SystemExit"
                /\ exit_code' = 2
                /\ diag' = <<"usage: ", USAGE, " tempy: error">>
                /\ UNCHANGED args
           ELSE /\ pc' = "args_parsed"
                /\ args' = ArgsDict(parsed)
                /\ UNCHANGED <<raised, exit_code, diag>>
    /\ UNCHANGED <<os_name, fs, argv, tempyrc, config, fs0, later>>

-----------------------------------------------------------------------------
(* config.Config *)

Or_second_first(a, b) == IF Truthy(b) THEN b ELSE a

\* Python's  a or b
Or(a, b) == IF Truthy(a) THEN a ELSE b

\* the loop over VALID_OPTIONS
Merge(rc, a) == [o \in ValidSet |-> Or(a[o], rc[o])]

LocationMissing_never(c) == FALSE

LocationMissing_if_none(c) == c[LOCATION] = None

\* if not config["location"]
LocationMissing(c) == ~Truthy(c[LOCATION])

DEFAULT_UNITS == <<"imperial">>

DefaultUnits_skipped(c) == c

\* if not config["units"]: config["units"] = "imperial"
DefaultUnits(c) == IF ~Truthy(c[UNITS]) THEN [c EXCEPT ![UNITS] = DEFAULT_UNITS] ELSE c

MissingLocationMsg ==
    <<"Error: 'location' not provided in tempyrc or as command line arg. Usage: ", USAGE>>

\* Config.__init__(tempyrc, args); sys.exit() without an argument is exit status 0
Resolve ==
    /\ pc = "args_parsed"
    /\ LET merged == Merge(tempyrc, args)
       IN  IF LocationMissing(merged)
           THEN /\ pc' = "exited"
                /\ raised' = "SystemExit"
                /\ exit_code' = 0
                /\ diag' = MissingLocationMsg
                /\ UNCHANGED config
           ELSE /\ pc' = "resolved"
                /\ config' = DefaultUnits(merged)
                /\ UNCHANGED <<raised, exit_code, diag>>
    /\ UNCHANGED <<os_name, fs, argv, tempyrc, args, fs0, later>>

-----------------------------------------------------------------------------
(* Inputs of the command line parser *)

ArgTokens ==
    { <<"-u">>, <<"--units">>, <<"-k">>,
      <<"imperial">>, <<"metric">>, <<"lkf">>, <<"new">>, <<"york">>, <<>> }

Argvs == SeqsUpTo(ArgTokens, MaxArgv)

\* the parser alone, after the skeleton rc file was loaded
InitArgs ==
    /\ os_name \in {"posix", "nt"}
    /\ dirs = {"gp", "parent"}
    /\ rc_exists = TRUE
    /\ rc_content = Skel
    /\ argv \in Argvs
    /\ pc = "rc_loaded"
    /\ tempyrc = AllEmpty
    /\ args = EmptyDict
    /\ config = EmptyDict
    /\ exit_code = -1
    /\ diag = <<>>
    /\ raised = ""
    /\ fs0 = [dirs |-> dirs, rc_exists |-> rc_exists, rc_content |-> rc_content]
    /\ NothingLater

NextArgs == ParseArgs

SpecArgs == InitArgs /\ [][NextArgs]_vars

-----------------------------------------------------------------------------
(* WeatherAPI: the fetch (src/tempy/data.py) *)

\* A JSON number: a float prints as whole '.' frac, an int as whole
FloatNum(neg, whole, frac) == [neg |-> neg, whole |-> whole, frac |-> frac, float |-> TRUE]
IntNum(whole) == [neg |-> FALSE, whole |-> whole, frac |-> 0, float |-> FALSE]

int_floor(x) ==
    [neg |-> x.neg,
     whole |-> IF x.neg /\ x.frac # 0 THEN x.whole + 1 ELSE x.whole,
     frac |-> 0, float |-> FALSE]

\* int(x): truncation towards zero
int(x) == [neg |-> x.neg /\ x.whole # 0, whole |-> x.whole, frac |-> 0, float |-> FALSE]

\* f"{x}" for a number
Str(x) ==
    (IF x.neg THEN <<"-">> ELSE <<>>)
        \o <<ToString(x.whole)>>
        \o (IF x.float THEN <<".", ToString(x.frac)>> ELSE <<>>)

\* the numeric fields of "current" and of a forecast day's "day", in the
\* order of the provider's schema
CURRENT_KEYS ==
    <<"temp_c", "temp_f", "wind_mph", "wind_kph", "pressure_mb", "pressure_in",
      "precip_mm", "precip_in", "humidity", "cloud", "vis_km", "vis_miles", "uv",
      "gust_mph", "gust_kph">>

DAY_KEYS ==
    <<"maxtemp_c", "maxtemp_f", "mintemp_c", "mintemp_f", "avgtemp_c", "avgtemp_f",
      "maxwind_mph", "maxwind_kph", "totalprecip_mm", "totalprecip_in",
      "avgvis_km", "avgvis_miles", "daily_chance_of_rain", "daily_chance_of_snow", "uv">>

IntKeys == {"humidity", "cloud", "daily_chance_of_rain", "daily_chance_of_snow"}

IndexOf(seq, k) == CHOOSE i \in 1..Len(seq) : seq[i] = k

Range(seq) == {seq[i] : i \in 1..Len(seq)}

\* a reading that differs from field to field, from day to day and from seed
\* to seed; the Celsius temperatures and the pressure in millibars of an odd
\* seed are below zero
Reading(keys, k, base, seed) ==
    LET i == IndexOf(keys, k)
        whole == base + 20 * seed + i
    IN  IF k \in IntKeys THEN IntNum(whole)
        ELSE FloatNum(seed % 2 = 1 /\ k \in {"temp_c", "maxtemp_c", "mintemp_c", "avgtemp_c",
                                             "pressure_mb"},
                   whole, i % 10)

CurrentObject(seed) ==
    [k \in Range(CURRENT_KEYS) \cup {"wind_dir", "is_day", "condition"} |->
        IF k = "wind_dir" THEN <<"NW">>
        ELSE IF k = "is_day" THEN IntNum(seed % 2)
        ELSE IF k = "condition" THEN [text |-> <<"Partly", " ", "cloudy">>]
        ELSE Reading(CURRENT_KEYS, k, 100, seed)]

\* the entry of forecast.forecastday at index d (from 0)
ForecastDay(d, seed) ==
    [day |-> [k \in Range(DAY_KEYS) |-> Reading(DAY_KEYS, k, 200 + 40 * d, seed)]]

\* location.localtime, the text 'Y-m-d H:M', as its five digit runs
LocaltimeText(Y, m, d) == [Y |-> Y, m |-> m, d |-> d, H |-> 7, M |-> 5]

\* a forecast payload of the provider's schema with ndays forecast days
Payload(lt, ndays, seed) ==
    [location |-> [name |-> <<"New", " ", "York">>, region |-> <<"New", " ", "York">>,
                   localtime |-> lt],
     current  |-> CurrentObject(seed),
     forecast |-> [forecastday |-> [d \in 1..ndays |-> ForecastDay(d - 1, seed)]]]

\* the provider's answer to a request it cannot serve
ErrorBody == [error |-> [code |-> 1006, message |-> <<"No matching location found.">>]]

\* a JSON body that is neither a payload nor an error object
DetailBody == [detail |-> <<"Too Many Requests">>]

Without(obj, k) == [j \in DOMAIN obj \ {k} |-> obj[j]]

\* An HTTP response: its status, whether its body is JSON, and the decoded body
Response(status, body) == [status_code |-> status, is_json |-> TRUE, body |-> body]
NotJson(status) == [status_code |-> status, is_json |-> FALSE, body |-> EmptyDict]

\* no response at all: requests.get raises ConnectionError
NoAnswer == [status_code |-> 0, is_json |-> FALSE, body |-> EmptyDict]

July4 == LocaltimeText(2024, 7, 4)

\* the responses of the pipeline: a complete payload, a payload without
\* "current", payloads with two and with four forecast days, an error object
\* and a body that is not JSON
Responses ==
    { Response(200, Payload(July4, 3, 0)),
      Response(200, Without(Payload(July4, 3, 0), "current")),
      Response(200, Payload(July4, 2, 0)),
      Response(200, Payload(July4, 4, 0)),
      Response(400, ErrorBody),
      Response(429, ErrorBody),
      Response(429, DetailBody),
      NotJson(429),
      NotJson(200),
      NoAnswer }

\* WeatherAPI.__init__: 'if api_key' picks the authenticated endpoint
UseApi_never(api_key) == FALSE
UseApi(api_key) == Truthy(api_key)

\* requests.get of _request_api: key and q in the query string, no location header
ApiRequest(api_key, location) ==
    [to |-> "https://api.weatherapi.com/v1/forecast.json", key |-> api_key, q |-> location,
     days |-> 3, header_location |-> None]

\* requests.get of _request_proxy: the location in a header, nothing in the query string
ProxyRequest(location) ==
    [to |-> "http://noprobelm.dev:80", key |-> None, q |-> None,
     days |-> 0, header_location |-> location]

\* _validate_data: "error" in data.keys()
HasError_never(body) == FALSE
HasError(body) == "error" \in DOMAIN body

\* the message _validate_data prints
UpstreamMsg(location, body) ==
    <<"tempy: '">> \o location \o <<"': ">> \o body.error.message \o <<" Please try again">>

\* WeatherAPI.__init__ with the location and the key of the resolved config:
\* one requests.get, response.json(), _validate_data
Fetch ==
    /\ pc = "resolved"
    /\ \E resp \in Responses :
        LET location == config[LOCATION]
            api_key == config[API_KEY]
            request == IF UseApi(api_key) THEN ApiRequest(api_key, location)
                       ELSE ProxyRequest(location)
        IN  /\ requests' = Append(requests, request)
            /\ response' = resp
            /\ IF resp = NoAnswer
               THEN /\ raised' = "ConnectionError"
                    /\ exit_code' = 1
                    /\ diag' = <<"ConnectionError">>
                    /\ pc' = "exited"
                    /\ UNCHANGED data
               ELSE IF ~resp.is_json
               THEN /\ raised' = "JSONDecodeError"
                    /\ exit_code' = 1
                    /\ diag' = <<"JSONDecodeError">>
                    /\ pc' = "exited"
                    /\ UNCHANGED data
               ELSE IF HasError(resp.body)
               THEN /\ raised' = "SystemExit"
                    /\ exit_code' = 0
                    /\ diag' = UpstreamMsg(location, resp.body)
                    /\ pc' = "exited"
                    /\ UNCHANGED data
               ELSE /\ data' = resp.body
                    /\ pc' = "fetched"
                    /\ UNCHANGED <<diag, exit_code, raised>>
    /\ UNCHANGED <<os_name, fs, argv, tempyrc, args, config, fs0, report, rendered, race>>

-----------------------------------------------------------------------------
(* WeatherAPI.parse: the normalization (src/tempy/data.py) *)

\* a row of a table dict: the label and the text shown for it
Row(label, value) == <<label, value>>

\* the keys of a table dict in insertion order
Labels(table) == [i \in 1..Len(table) |-> table[i][1]]

_parse_location(city, region) == city \o <<", ">> \o region

_parse_weather_imperial(weather) ==
    << Row("temperature", Str(weather.temp_f) \o <<"°F">>),
       Row("wind", Str(weather.wind_mph) \o <<" ", "mph", " ">> \o weather.wind_dir),
       Row("gusts", Str(weather.gust_mph) \o <<" ", "mph">>),
       Row("pressure", Str(weather.pressure_in) \o <<" ", "inHg">>),
       Row("precipitation", Str(weather.precip_in) \o <<" ", "in">>),
       Row("visibility", Str(weather.vis_miles) \o <<" ", "mi">>),
       Row("humidity", Str(weather.humidity) \o <<"%">>),
       Row("cloud cover", Str(weather.cloud) \o <<"%">>),
       Row("UV index", Str(weather.uv)) >>

_parse_weather_metric_wind_first(weather) ==
    << Row("wind", Str(weather.wind_kph) \o <<" ", "kph", " ">> \o weather.wind_dir),
       Row("temperature", Str(weather.temp_c) \o <<"°C">>),
       Row("gusts", Str(weather.gust_kph) \o <<" ", "kph">>),
       Row("pressure", Str(int(weather.pressure_mb)) \o <<" ", "mb">>),
       Row("precipitation", Str(weather.precip_mm) \o <<" ", "mm">>),
       Row("visibility", Str(weather.vis_km) \o <<" ", "km">>),
       Row("humidity", Str(weather.humidity) \o <<"%">>),
       Row("cloud cover", Str(weather.cloud) \o <<"%">>),
       Row("UV index", Str(weather.uv)) >>
_parse_weather_metric(weather) ==
    << Row("temperature", Str(weather.temp_c) \o <<"°C">>),
       Row("wind", Str(weather.wind_kph) \o <<" ", "kph", " ">> \o weather.wind_dir),
       Row("gusts", Str(weather.gust_kph) \o <<" ", "kph">>),
       Row("pressure", Str(int(weather.pressure_mb)) \o <<" ", "mb">>),
       Row("precipitation", Str(weather.precip_mm) \o <<" ", "mm">>),
       Row("visibility", Str(weather.vis_km) \o <<" ", "km">>),
       Row("humidity", Str(weather.humidity) \o <<"%">>),
       Row("cloud cover", Str(weather.cloud) \o <<"%">>),
       Row("UV index", Str(weather.uv)) >>

_parse_weather(weather, imperial) ==
    IF imperial THEN _parse_weather_imperial(weather) ELSE _parse_weather_metric(weather)

_parse_forecast_imperial_from_celsius(forecast) ==
    << Row("average", Str(forecast.avgtemp_c) \o <<"°F">>),
       Row("low", Str(forecast.mintemp_c) \o <<"°F">>),
       Row("high", Str(forecast.maxtemp_c) \o <<"°F">>),
       Row("gusts", Str(forecast.maxwind_mph) \o <<" ", "mph">>),
       Row("total precipitation", Str(forecast.totalprecip_in) \o <<" ", "in">>),
       Row("average visibility", Str(forecast.avgvis_miles) \o <<" ", "mi">>),
       Row("chance of rain", Str(forecast.daily_chance_of_rain) \o <<"%">>),
       Row("chance of snow", Str(forecast.daily_chance_of_snow) \o <<"%">>),
       Row("uv index", Str(forecast.uv)) >>
_parse_forecast_imperial(forecast) ==
    << Row("average", Str(forecast.avgtemp_f) \o <<"°F">>),
       Row("low", Str(forecast.mintemp_f) \o <<"°F">>),
       Row("high", Str(forecast.maxtemp_f) \o <<"°F">>),
       Row("gusts", Str(forecast.maxwind_mph) \o <<" ", "mph">>),
       Row("total precipitation", Str(forecast.totalprecip_in) \o <<" ", "in">>),
       Row("average visibility", Str(forecast.avgvis_miles) \o <<" ", "mi">>),
       Row("chance of rain", Str(forecast.daily_chance_of_rain) \o <<"%">>),
       Row("chance of snow", Str(forecast.daily_chance_of_snow) \o <<"%">>),
       Row("uv index", Str(forecast.uv)) >>

_parse_forecast_metric(forecast) ==
    << Row("average", Str(forecast.avgtemp_c) \o <<"°C">>),
       Row("low", Str(forecast.mintemp_c) \o <<"°C">>),
       Row("high", Str(forecast.maxtemp_c) \o <<"°C">>),
       Row("gusts", Str(forecast.maxwind_kph) \o <<" ", "kph">>),
       Row("total precipitation", Str(forecast.totalprecip_mm) \o <<" ", "mm">>),
       Row("average visibility", Str(forecast.avgvis_km) \o <<" ", "km">>),
       Row("chance of rain", Str(forecast.daily_chance_of_rain) \o <<"%">>),
       Row("chance of snow", Str(forecast.daily_chance_of_snow) \o <<"%">>),
       Row("uv index", Str(forecast.uv)) >>

_parse_forecast(forecast, imperial) ==
    IF imperial THEN _parse_forecast_imperial(forecast) ELSE _parse_forecast_metric(forecast)

\* the fields the f-strings of _parse_weather read
WeatherFields(imperial) ==
    (IF imperial
     THEN {"temp_f", "wind_mph", "gust_mph", "pressure_in", "precip_in", "vis_miles"}
     ELSE {"temp_c", "wind_kph", "gust_kph", "pressure_mb", "precip_mm", "vis_km"})
        \cup {"wind_dir", "humidity", "cloud", "uv"}

\* the fields the f-strings of _parse_forecast read
ForecastFields(imperial) ==
    (IF imperial
     THEN {"avgtemp_f", "mintemp_f", "maxtemp_f", "maxwind_mph", "totalprecip_in",
           "avgvis_miles"}
     ELSE {"avgtemp_c", "mintemp_c", "maxtemp_c", "maxwind_kph", "totalprecip_mm",
           "avgvis_km"})
        \cup {"daily_chance_of_rain", "daily_chance_of_snow", "uv"}

\* calendar of datetime
IsLeap(y) == (y % 4 = 0 /\ y % 100 # 0) \/ y % 400 = 0

DaysInMonth(y, m) ==
    IF m = 2 THEN (IF IsLeap(y) THEN 29 ELSE 28)
    ELSE IF m \in {4, 6, 9, 11} THEN 30
    ELSE 31

\* datetime.strptime(text, "%Y-%m-%d %H:%M") raises ValueError
StrptimeRaises(t) ==
    ~ /\ t.m \in 1..12
      /\ t.d >= 1
      /\ t.d <= DaysInMonth(t.Y, t.m)
      /\ t.H \in 0..23
      /\ t.M \in 0..59

strptime(t) == [year |-> t.Y, month |-> t.m, day |-> t.d, hour |-> t.H, minute |-> t.M]

\* self.data["location"]["localtime"] raises KeyError
LocaltimeKeyError(d) ==
    \/ "location" \notin DOMAIN d
    \/ "localtime" \notin DOMAIN d.location

\* a later subscript of parse or of the f-strings raises KeyError
ParseKeyError(d, imperial) ==
    \/ ~({"current", "forecast"} \subseteq DOMAIN d)
    \/ ~({"name", "region"} \subseteq DOMAIN d.location)
    \/ ~({"is_day", "condition"} \cup WeatherFields(imperial) \subseteq DOMAIN d.current)
    \/ "forecastday" \notin DOMAIN d.forecast
    \/ \E i \in DOMAIN d.forecast.forecastday :
          \/ "day" \notin DOMAIN d.forecast.forecastday[i]
          \/ ~(ForecastFields(imperial) \subseteq DOMAIN d.forecast.forecastday[i].day)

IsImperial_unless_metric(units) == units # <<"metric">>

\* parse: if units == "imperial"
IsImperial(units) == units = <<"imperial">>

\* the dict WeatherAPI.parse returns, which from_weatherapi passes to Report
parse(d, units) ==
    LET imperial == IsImperial(units)
    IN  [localtime |-> strptime(d.location.localtime),
         is_day |-> d.current.is_day.whole # 0,
         location |-> _parse_location(d.location.name, d.location.region),
         condition |-> d.current.condition.text,
         weather_table |-> _parse_weather(d.current, imperial),
         forecast_tables |->
            [i \in 1..Len(d.forecast.forecastday) |->
                _parse_forecast(d.forecast.forecastday[i].day, imperial)]]

\* Report.from_weatherapi after the fetch: data.parse(units) and cls(...)
Normalize ==
    /\ pc = "fetched"
    /\ LET units == config[UNITS]
           failure == IF LocaltimeKeyError(data) THEN "KeyError"
                      ELSE IF StrptimeRaises(data.location.localtime) THEN "ValueError"
                      ELSE IF ParseKeyError(data, IsImperial(units)) THEN "KeyError"
                      ELSE ""
       IN  IF failure # ""
           THEN /\ raised' = failure
                /\ exit_code' = 1
                /\ diag' = <<failure>>
                /\ pc' = "exited"
                /\ UNCHANGED report
           ELSE /\ report' = parse(data, units)
                /\ pc' = "parsed"
                /\ UNCHANGED <<raised, exit_code, diag>>
    /\ UNCHANGED <<os_name, fs, argv, tempyrc, args, config, fs0,
                   requests, response, data, rendered, race>>

-----------------------------------------------------------------------------
(* Report: the rendering (src/tempy/report.py) *)

WEEKDAYS == <<"Monday", "Tuesday", "Wednesday", "Thursday", "Friday", "Saturday", "Sunday">>

MONTHS ==
    <<"January", "February", "March", "April", "May", "June", "July", "August",
      "September", "October", "November", "December">>

RECURSIVE DaysBeforeMonth(_, _)
DaysBeforeMonth(y, m) ==
    IF m = 1 THEN 0 ELSE DaysBeforeMonth(y, m - 1) + DaysInMonth(y, m - 1)

\* date.toordinal(): the day number counted from 0001-01-01 as day 1
Ordinal(dt) ==
    LET y == dt.year - 1
    IN  365 * y + (y \div 4) - (y \div 100) + (y \div 400)
            + DaysBeforeMonth(dt.year, dt.month) + dt.day

\* date.weekday(): Monday is 0
Weekday(dt) == (Ordinal(dt) + 6) % 7

NextDay(dt) ==
    IF dt.day < DaysInMonth(dt.year, dt.month) THEN [dt EXCEPT !.day = dt.day + 1]
    ELSE IF dt.month < 12 THEN [dt EXCEPT !.day = 1, !.month = dt.month + 1]
    ELSE [dt EXCEPT !.day = 1, !.month = 1, !.year = dt.year + 1]

\* dt + timedelta(days=days)
RECURSIVE timedelta(_, _)
timedelta(dt, days) == IF days = 0 THEN dt ELSE NextDay(timedelta(dt, days - 1))

\* strftime('%H') and strftime('%M'): two digits
Pad2(n) == IF n < 10 THEN <<"0", ToString(n)>> ELSE <<ToString(n)>>

\* strftime('%A, %B') followed by ' ' and the stripped strftime('%e')
DateLabel(dt) ==
    <<WEEKDAYS[Weekday(dt) + 1], ", ", MONTHS[dt.month], " ", ToString(dt.day)>>

_get_localtime_header(localtime) ==
    DateLabel(localtime) \o <<" | ">> \o Pad2(localtime.hour) \o <<":">> \o Pad2(localtime.minute)

_get_localtime_timedelta(localtime, days) == DateLabel(timedelta(localtime, days))

\* the header of the table at index num of forecast_tables[1:]
date_header_same_day(localtime, num) == _get_localtime_timedelta(localtime, num)
date_header(localtime, num) == _get_localtime_timedelta(localtime, num + 1)

\* str.replace(old, new) for one-character old and new
Replace(s, old, new) == [i \in 1..Len(s) |-> IF s[i] = old THEN new ELSE s[i]]

TitleAtom(a) ==
    CASE a = "cloudy" -> "Cloudy"
      [] OTHER -> a

\* str.title()
Title(s) == [i \in 1..Len(s) |-> TitleAtom(s[i])]

\* _get_ascii_art: the asset file it opens and the label under the art
_get_ascii_art(condition, is_day) ==
    [asset |-> Lower(Replace(condition, " ", "_"))
                  \o (IF is_day THEN <<"_day.txt">> ELSE <<"_night.txt">>),
     label |-> Title(condition)]

_get_weather_table(table_data, title) == [title |-> title \o <<"\n">>, rows |-> table_data]

\* __rich_console__ yields report_upper and report_lower after both are built
Yield_upper_first(upper_raises, lower_raises, report_upper, report_lower) ==
    IF upper_raises THEN <<>>
    ELSE IF lower_raises THEN <<report_upper>>
    ELSE <<report_upper, report_lower>>
Yield(upper_raises, lower_raises, report_upper, report_lower) ==
    IF upper_raises \/ lower_raises THEN <<>> ELSE <<report_upper, report_lower>>

\* main: console.print(report), which runs Report.__rich_console__; the
\* asset file of the condition may or may not exist
Render ==
    /\ pc = "parsed"
    /\ \E asset_found \in BOOLEAN :
        LET n == Len(report.forecast_tables)
            forecast_tables ==
                [i \in 1..n |->
                    _get_weather_table(report.forecast_tables[i],
                        IF i = 1 THEN <<"Today's Forecast">>
                        ELSE date_header(report.localtime, i - 2))]
            report_upper ==
                [location |-> report.location,
                 localtime |-> _get_localtime_header(report.localtime),
                 art |-> _get_ascii_art(report.condition, report.is_day),
                 weather_table |-> _get_weather_table(report.weather_table,
                                                      <<"Current Condiitons">>),
                 today |-> forecast_tables[1]]
            report_lower == <<forecast_tables[2], forecast_tables[3]>>
            failure == IF ~asset_found THEN "FileNotFoundError"
                       ELSE IF n < 3 THEN "IndexError"
                       ELSE ""
        IN  /\ rendered' = rendered \o Yield(~asset_found \/ n = 0, n < 3,
                                             report_upper, report_lower)
            /\ IF failure # ""
               THEN /\ raised' = failure
                    /\ exit_code' = 1
                    /\ diag' = <<failure>>
                    /\ pc' = "exited"
               ELSE /\ exit_code' = 0
                    /\ pc' = "rendered"
                    /\ UNCHANGED <<raised, diag>>
    /\ UNCHANGED <<os_name, fs, argv, tempyrc, args, config, fs0,
                   requests, response, data, report, race>>

-----------------------------------------------------------------------------
(* The pipeline of Config.from_default *)

\* rc files with at most one line for each option
PipelineFiles ==
    { l \o u \o k :
        l \in {<<>>, << <<"location", "=", "NYC">> >>},
        u \in {<<>>, << <<"units", "=", "metric">> >>, << <<"units", "=", "kelvin">> >>},
        k \in {<<>>, << <<"api_key", "=", "k1">> >>} }

\* command lines with a location, a units option and a key option, each optional
PipelineArgvs ==
    { l \o u \o k :
        l \in {<<>>, << <<"beijing">> >>, << <<"new">>, <<"york">> >>},
        u \in {<<>>, << <<"-u">>, <<"metric">> >>, << <<"--units">>, <<"imperial">> >>,
               << <<"-u">>, <<"lkf">> >>},
        k \in {<<>>, << <<"-k">>, <<"k9">> >>} }

Init ==
    /\ os_name \in {"posix", "nt"}
    /\ FsInit(PipelineFiles)
    /\ argv \in PipelineArgvs
    /\ pc = "start"
    /\ NotStarted

Next == LoadRc \/ ParseArgs \/ Resolve \/ Fetch \/ Normalize \/ Render

Spec == Init /\ [][Next]_vars

-----------------------------------------------------------------------------
(* The normalization and the rendering alone, over many payloads *)

\* the largest number of entries of forecast.forecastday
MaxForecastDays == 4

\* local times around the ends of months and of years, in leap years and in
\* common years, and one that is not a date
Localtimes ==
    { LocaltimeText(2024, 7, 4), LocaltimeText(2024, 2, 28), LocaltimeText(2023, 2, 28),
      LocaltimeText(1900, 2, 28), LocaltimeText(2024, 4, 30), LocaltimeText(2024, 12, 30),
      LocaltimeText(2024, 12, 31), LocaltimeText(2023, 2, 29) }

ReportPayloads ==
    { Payload(lt, ndays, seed) : lt \in Localtimes, ndays \in 0..MaxForecastDays, seed \in 0..1 }
        \cup { [Payload(July4, 3, 0) EXCEPT !.current = Without(@, "temp_f")],
               Without(Payload(July4, 3, 0), "current") }

\* rc files that give the location and, some of them, the units
ReportFiles ==
    { << <<"location", "=", "NYC">> >> \o u :
        u \in {<<>>, << <<"units", "=", "metric">> >>, << <<"units", "=", "imperial">> >>,
               << <<"units", "=", "kelvin">> >>} }

\* the state after a fetch over the proxy that returned a payload, for a
\* command line without arguments
InitReport ==
    /\ os_name = "posix"
    /\ dirs = {"gp", "parent"}
    /\ rc_exists = TRUE
    /\ rc_content \in ReportFiles
    /\ argv = <<>>
    /\ pc = "fetched"
    /\ tempyrc = FillMissing(parse_rc(rc_content))
    /\ args = ArgsDict(parse_args(argv))
    /\ config = DefaultUnits(Merge(tempyrc, args))
    /\ exit_code = -1
    /\ diag = <<>>
    /\ raised = ""
    /\ fs0 = [dirs |-> dirs, rc_exists |-> rc_exists, rc_content |-> rc_content]
    /\ data \in ReportPayloads
    /\ requests = <<ProxyRequest(config[LOCATION])>>
    /\ response = Response(200, data)
    /\ report = EmptyDict
    /\ rendered = <<>>
    /\ race = <<>>

NextReport == Normalize \/ Render

SpecReport == InitReport /\ [][NextReport]_vars

-----------------------------------------------------------------------------
(* Two invocations that load the same rc path concurrently: the steps of   *)
(* TempyRC.__init__ and TempyRC._copy_skel, one system call at a time      *)

\* the invocations
Procs == {1, 2}

\* an invocation before its first step
Starting == [pc |-> "open", entry |-> EmptyDict, raised |-> "", msg |-> <<>>]

\* an invocation that ended with an exception or with sys.exit
Failed(exception, msg) == [pc |-> "failed", entry |-> EmptyDict, raised |-> exception, msg |-> msg]

\* os.mkdir(path.parent) raises FileExistsError when path.parent is there
MkdirExists(d) == "parent" \in d

\* open(path, "r"): FileNotFoundError when the file (or its directory) is missing
OpenRead ==
    /\ pc = "race"
    /\ \E p \in Procs :
        /\ race[p].pc = "open"
        /\ race' = [race EXCEPT ![p].pc = IF OpenRaises(rc_exists) THEN "isdir" ELSE "read"]
    /\ UNCHANGED <<os_name, fs, argv, pc, tempyrc, args, config, exit_code, diag, raised, fs0,
                   requests, response, data, report, rendered>>

\* parse_rc(fp) on the open file, and the else branch of the try
ReadRc ==
    /\ pc = "race"
    /\ \E p \in Procs :
        /\ race[p].pc = "read"
        /\ LET parsed == FillMissing(parse_rc(rc_content))
           IN  race' = [race EXCEPT ![p] =
                            IF DeleteRaises(parsed) THEN Failed("RuntimeError", <<>>)
                            ELSE [@ EXCEPT !.pc = "done", !.entry = parsed]]
    /\ UNCHANGED <<os_name, fs, argv, pc, tempyrc, args, config, exit_code, diag, raised, fs0,
                   requests, response, data, report, rendered>>

\* _copy_skel: os.path.isdir(tempyrc_parent_path) and the test of os.name
IsDir ==
    /\ pc = "race"
    /\ \E p \in Procs :
        /\ race[p].pc = "isdir"
        /\ race' = [race EXCEPT ![p] =
                        IF "parent" \in dirs THEN [@ EXCEPT !.pc = "openw"]
                        ELSE IF os_name = "posix" THEN [@ EXCEPT !.pc = "mkdir"]
                        ELSE Failed("SystemExit", NoSuchPath("parent"))]
    /\ UNCHANGED <<os_name, fs, argv, pc, tempyrc, args, config, exit_code, diag, raised, fs0,
                   requests, response, data, report, rendered>>

\* _copy_skel: os.mkdir(tempyrc_parent_path); only FileNotFoundError is caught
Mkdir ==
    /\ pc = "race"
    /\ \E p \in Procs :
        /\ race[p].pc = "mkdir"
        /\ IF MkdirRaises(dirs)
           THEN /\ race' = [race EXCEPT ![p] = Failed("SystemExit", NoSuchPath("gp"))]
                /\ UNCHANGED dirs
           ELSE IF MkdirExists(dirs)
           THEN /\ race' = [race EXCEPT ![p] = Failed("FileExistsError", <<>>)]
                /\ UNCHANGED dirs
           ELSE /\ race' = [race EXCEPT ![p].pc = "openw"]
                /\ dirs' = dirs \cup {"parent"}
    /\ UNCHANGED <<os_name, rc_exists, rc_content, argv, pc, tempyrc, args, config, exit_code,
                   diag, raised, fs0, requests, response, data, report, rendered>>

\* _copy_skel: open(path, "w") creates the file or empties it
OpenWrite ==
    /\ pc = "race"
    /\ \E p \in Procs :
        /\ race[p].pc = "openw"
        /\ race' = [race EXCEPT ![p].pc = "write"]
    /\ rc_exists' = TRUE
    /\ rc_content' = <<>>
    /\ UNCHANGED <<os_name, dirs, argv, pc, tempyrc, args, config, exit_code, diag, raised, fs0,
                   requests, response, data, report, rendered>>

\* _copy_skel: f.write(skel) and the close of the file, then the all-empty
\* dict of the except branch
WriteSkel ==
    /\ pc = "race"
    /\ \E p \in Procs :
        /\ race[p].pc = "write"
        /\ race' = [race EXCEPT ![p].pc = "done", ![p].entry = AllEmpty]
    /\ rc_content' = Skel
    /\ UNCHANGED <<os_name, dirs, rc_exists, argv, pc, tempyrc, args, config, exit_code, diag,
                   raised, fs0, requests, response, data, report, rendered>>

\* both invocations start with the rc file missing
InitRace ==
    /\ os_name \in {"posix", "nt"}
    /\ dirs \in {{}, {"gp"}, {"gp", "parent"}}
    /\ rc_exists = FALSE
    /\ rc_content = <<>>
    /\ argv = <<>>
    /\ pc = "race"
    /\ tempyrc = EmptyDict
    /\ args = EmptyDict
    /\ config = EmptyDict
    /\ exit_code = -1
    /\ diag = <<>>
    /\ raised = ""
    /\ fs0 = [dirs |-> dirs, rc_exists |-> rc_exists, rc_content |-> rc_content]
    /\ requests = <<>>
    /\ response = EmptyDict
    /\ data = EmptyDict
    /\ report = EmptyDict
    /\ rendered = <<>>
    /\ race = [p \in Procs |-> Starting]

NextRace == OpenRead \/ ReadRc \/ IsDir \/ Mkdir \/ OpenWrite \/ WriteSkel

SpecRace == InitRace /\ [][NextRace]_vars

-----------------------------------------------------------------------------
(* Vocabulary of the claims about rc files *)

\* the text before the first '=' of a line, trimmed and lowercased
LineKey(raw) ==
    LET line == Strip(raw)
    IN  Lower(Strip(SubSeq(line, 1, FirstIndex(line, "=") - 1)))

\* the text after the first '=' of a line, trimmed and lowercased
LineValue(raw) ==
    LET line == Strip(raw)
    IN  Lower(Strip(SubSeq(line, FirstIndex(line, "=") + 1, Len(line))))

IsComment(raw) == StartsWith(Strip(raw), "#")

IsKeyValueLine(raw) == ~IsComment(raw) /\ FirstIndex(raw, "=") > 0

IsRecognizedLine(raw) == IsKeyValueLine(raw) /\ LineKey(raw) \in ValidSet

HasUnknownKeyLine(content) ==
    \E i \in 1..Len(content) : IsKeyValueLine(content[i]) /\ LineKey(content[i]) \notin ValidSet

OnlyRecognizedLines(content) == \A i \in 1..Len(content) : IsRecognizedLine(content[i])

\* the value of the last line of the file that sets option o, "" when no line does
FileValue(content, o) ==
    LET at == {i \in 1..Len(content) : LineKey(content[i]) = o}
    IN  IF at = {} THEN <<>>
        ELSE LineValue(content[CHOOSE i \in at : \A j \in at : j <= i])

\* the load has run
Loaded == pc # "start"

\* Config.__init__ has run
ResolveRan == args # EmptyDict /\ pc # "args_parsed"

-----------------------------------------------------------------------------
(* Claims *)

\* C1 as stated: every option of a resolved config, units included, is the
\* args value when that is non-empty and the rc value otherwise.
C1_ResolvedIsArgsElseRc ==
    pc = "resolved" =>
        \A o \in ValidSet :
            config[o] = (IF Truthy(args[o]) THEN args[o] ELSE tempyrc[o])

\* C1 amended: every option of a resolved config is the args value when that
\* is non-empty and the rc value otherwise, except that units is 'imperial'
\* when the args units and the rc units are both empty.
C1_ArgPrecedence ==
    pc = "resolved" =>
        \A o \in ValidSet :
            config[o] = (IF Truthy(args[o]) THEN args[o]
                         ELSE IF o = UNITS /\ ~Truthy(tempyrc[o]) THEN <<"imperial">>
                         ELSE tempyrc[o])

\* an args location overrides a different rc location while the api_key comes from the rc file
C1_Witness ==
    /\ pc = "resolved"
    /\ Truthy(args[LOCATION]) /\ Truthy(tempyrc[LOCATION])
    /\ args[LOCATION] # tempyrc[LOCATION]
    /\ ~Truthy(args[API_KEY]) /\ Truthy(tempyrc[API_KEY])
    /\ config[LOCATION] = args[LOCATION]
    /\ config[API_KEY] = tempyrc[API_KEY]

\* C2: when the args location and the rc location are both empty, Config ends
\* the process and produces no resolved config, whatever units and api_key are.
C2_NoLocationTerminates ==
    (ResolveRan /\ ~Truthy(args[LOCATION]) /\ ~Truthy(tempyrc[LOCATION]))
        => (pc = "exited" /\ raised = "SystemExit" /\ config = EmptyDict)

\* both locations empty, units and api_key given, and the process has ended in Config
C2_Witness ==
    /\ pc = "exited"
    /\ ResolveRan
    /\ ~Truthy(args[LOCATION]) /\ ~Truthy(tempyrc[LOCATION])
    /\ Truthy(args[UNITS]) /\ Truthy(tempyrc[API_KEY])
    /\ diag = MissingLocationMsg

\* C3: every fatal condition ends the process with a non-zero exit code.
C3_FatalExitNonZero == pc = "exited" => exit_code # 0

\* C4: every resolved config has exactly the keys location, units and api_key,
\* a non-empty location, and units 'imperial' or 'metric'.
C4_ResolvedConfigShape ==
    pc = "resolved" =>
        /\ DOMAIN config = ValidSet
        /\ Truthy(config[LOCATION])
        /\ config[UNITS] \in {<<"imperial">>, <<"metric">>}

\* C5: in a resolved config units is 'imperial' when the args units and the rc
\* units are both empty, and is the non-empty value by precedence otherwise.
C5_UnitsDefault ==
    pc = "resolved" =>
        /\ (~Truthy(args[UNITS]) /\ ~Truthy(tempyrc[UNITS])) => config[UNITS] = <<"imperial">>
        /\ Truthy(args[UNITS]) => config[UNITS] = args[UNITS]
        /\ (~Truthy(args[UNITS]) /\ Truthy(tempyrc[UNITS])) => config[UNITS] = tempyrc[UNITS]

\* a config resolved from two empty units values
C5_Witness ==
    /\ pc = "resolved"
    /\ ~Truthy(args[UNITS]) /\ ~Truthy(tempyrc[UNITS])
    /\ config[UNITS] = <<"imperial">>

\* C6: loading an existing rc file with a key=value line whose key is not
\* recognized completes, and the result has exactly the three recognized keys.
C6_UnknownKeyIgnored ==
    (Loaded /\ fs0.rc_exists /\ HasUnknownKeyLine(fs0.rc_content))
        => (pc # "exited" /\ DOMAIN tempyrc = ValidSet)

\* C7: loading an existing rc file of recognized key=value lines only gives
\* exactly the three recognized keys, each with the trimmed, lowercased value
\* the file gives it, and with "" when the file does not set it.
C7_RecognizedLinesLoad ==
    (Loaded /\ fs0.rc_exists /\ OnlyRecognizedLines(fs0.rc_content))
        => /\ pc # "exited"
           /\ DOMAIN tempyrc = ValidSet
           /\ \A o \in ValidSet : tempyrc[o] = FileValue(fs0.rc_content, o)

\* C8 as stated: when the rc file and its parent directory are missing and the
\* parent's parent exists, load creates the directory, writes the skeleton and
\* returns the all-empty mapping.
C8_SkeletonCreated ==
    (Loaded /\ ~fs0.rc_exists /\ fs0.dirs = {"gp"})
        => /\ tempyrc = AllEmpty
           /\ dirs = {"gp", "parent"}
           /\ rc_exists /\ rc_content = Skel

\* C8 amended: with os.name 'posix' the load creates the directory, writes the
\* skeleton and returns the all-empty mapping; with os.name 'nt' it ends the
\* process and creates nothing.
C8_SkeletonCreatedOnPosix ==
    (Loaded /\ ~fs0.rc_exists /\ fs0.dirs = {"gp"})
        => IF os_name = "posix"
           THEN /\ pc # "exited"
                /\ tempyrc = AllEmpty
                /\ dirs = {"gp", "parent"}
                /\ rc_exists /\ rc_content = Skel
           ELSE /\ pc = "exited" /\ raised = "SystemExit"
                /\ dirs = {"gp"} /\ ~rc_exists

\* the directory and the skeleton were created by the load
C8_Witness ==
    /\ pc = "rc_loaded"
    /\ os_name = "posix"
    /\ ~fs0.rc_exists /\ fs0.dirs = {"gp"}
    /\ dirs = {"gp", "parent"}
    /\ rc_exists /\ rc_content = Skel
    /\ tempyrc = AllEmpty

\* C9: when the rc file and the parent's parent are missing, load ends the
\* process with a message naming a missing path and changes nothing on disk.
C9_MissingGrandparentExits ==
    (Loaded /\ ~fs0.rc_exists /\ "gp" \notin fs0.dirs)
        => /\ pc = "exited" /\ raised = "SystemExit"
           /\ \E p \in {"gp", "parent"} \ dirs : diag = NoSuchPath(p)
           /\ dirs = {} /\ ~rc_exists /\ rc_content = <<>>
           /\ tempyrc = EmptyDict

\* the process ended naming the parent's parent
C9_Witness ==
    /\ pc = "exited"
    /\ ~fs0.rc_exists /\ "gp" \notin fs0.dirs
    /\ diag = NoSuchPath("gp")
    /\ dirs = {}

\* C10: the units value of Args is 'imperial', 'metric' or the empty string,
\* and it is the empty string when the option is omitted.
C10_ArgsUnitsDomain ==
    pc = "args_parsed" =>
        /\ args[UNITS] \in {<<"imperial">>, <<"metric">>, <<>>}
        /\ (\A i \in 1..Len(argv) : argv[i] \notin UnitsFlags) => args[UNITS] = <<>>

-----------------------------------------------------------------------------
(* Vocabulary of the claims about the command line *)

\* the tokens of a command line from position i on that are neither option
\* strings nor the argument of an option, in order
RECURSIVE PositionalsFrom(_, _)
PositionalsFrom(a, i) ==
    IF i > Len(a) THEN <<>>
    ELSE (IF ~IsFlag(a[i]) /\ (i = 1 \/ ~IsFlag(a[i - 1])) THEN <<a[i]>> ELSE <<>>)
         \o PositionalsFrom(a, i + 1)

Positionals(a) == PositionalsFrom(a, 1)

\* the tokens in order with one space between neighbours, built from the right
RECURSIVE SpaceSeparated(_)
SpaceSeparated(toks) ==
    IF toks = <<>> THEN <<>>
    ELSE IF Len(toks) = 1 THEN toks[1]
    ELSE SpaceSeparated(SubSeq(toks, 1, Len(toks) - 1)) \o <<" ">> \o toks[Len(toks)]

\* C11: the location of Args is the positional tokens in order joined by
\* single spaces, and the empty string when there is no positional token.
C11_LocationJoined ==
    pc = "args_parsed" =>
        /\ args[LOCATION] = SpaceSeparated(Positionals(argv))
        /\ Positionals(argv) = <<>> => args[LOCATION] = <<>>

\* two positional tokens were joined
C11_Witness ==
    /\ pc = "args_parsed"
    /\ Positionals(argv) = << <<"new">>, <<"york">> >>
    /\ args[LOCATION] = <<"new", " ", "york">>

-----------------------------------------------------------------------------
(* Claims about the fetch *)

\* the fetch has been made
Fetched == response # EmptyDict

\* the str sub occurs in the str s
Contains(s, sub) ==
    \E i \in 0..(Len(s) - Len(sub)) : SubSeq(s, i + 1, i + Len(sub)) = sub

IsProxyRequest(r) == r.to = "http://noprobelm.dev:80"
IsApiRequest(r) == r.to = "https://api.weatherapi.com/v1/forecast.json"

\* C12: a fetch sends exactly one request and never a second one; the request
\* goes to the authenticated forecast endpoint with the key and q = location
\* iff the API key is non-empty, and otherwise to the proxy with the location
\* in a header; the proxy never receives a key.
C12_OneRequest ==
    /\ Len(requests) <= 1
    /\ Fetched =>
        /\ Len(requests) = 1
        /\ IsApiRequest(requests[1]) <=> config[API_KEY] \notin {<<>>, None}
        /\ IsApiRequest(requests[1]) =>
            /\ requests[1].key = config[API_KEY]
            /\ requests[1].q = config[LOCATION]
            /\ requests[1].header_location = None
        /\ ~IsApiRequest(requests[1]) =>
            /\ IsProxyRequest(requests[1])
            /\ requests[1].header_location = config[LOCATION]
            /\ requests[1].key = None
            /\ requests[1].q = None

\* a fetch with a key went to the authenticated endpoint
C12_Witness ==
    /\ Fetched
    /\ config[API_KEY] = <<"k9">>
    /\ requests = << ApiRequest(<<"k9">>, <<"new", " ", "york">>) >>

\* C13: on either path, a JSON body with an error object ends the fetch with
\* the upstream error message, which carries the provider's message and the
\* requested location, and no payload is returned; a JSON body without an
\* error object is returned as the payload, unchanged.
C13_ErrorObject ==
    (Fetched /\ response.is_json) =>
        IF "error" \in DOMAIN response.body
        THEN /\ pc = "exited"
             /\ raised = "SystemExit"
             /\ Contains(diag, response.body.error.message)
             /\ Contains(diag, config[LOCATION])
             /\ data = EmptyDict
        ELSE data = response.body

\* the authenticated endpoint answered with an error object
C13_Witness ==
    /\ Fetched
    /\ IsApiRequest(requests[1])
    /\ response = Response(400, ErrorBody)
    /\ pc = "exited"
    /\ data = EmptyDict

\* the outcome of _validate_data on an error object
IsUpstreamError ==
    /\ raised = "SystemExit"
    /\ Contains(diag, <<" Please try again">>)

\* C14: when the proxy answers with status 429 the fetch ends with a
\* rate-limited outcome that is not the upstream error outcome, and no
\* payload is returned.
C14_RateLimited ==
    (Fetched /\ IsProxyRequest(requests[1]) /\ response.status_code = 429) =>
        /\ pc = "exited"
        /\ raised = "SystemExit"
        /\ ~IsUpstreamError
        /\ data = EmptyDict

-----------------------------------------------------------------------------
(* Claims about the normalization and the rendering *)

\* the normalization has completed
Normalized == report # EmptyDict

\* the resolved unit system is the imperial one
Imperial == config[UNITS] = <<"imperial">>

\* the str s begins with the str p
HasPrefix(s, p) == Len(s) >= Len(p) /\ SubSeq(s, 1, Len(p)) = p

\* the value of the row of a table with the given label
ValueOf(table, label) == table[CHOOSE i \in 1..Len(table) : table[i][1] = label][2]

\* the payload field a forecast table's label shows
DaySource(label, imperial) ==
    CASE label = "average" -> IF imperial THEN "avgtemp_f" ELSE "avgtemp_c"
      [] label = "low" -> IF imperial THEN "mintemp_f" ELSE "mintemp_c"
      [] label = "high" -> IF imperial THEN "maxtemp_f" ELSE "maxtemp_c"
      [] label = "gusts" -> IF imperial THEN "maxwind_mph" ELSE "maxwind_kph"
      [] label = "total precipitation" ->
            IF imperial THEN "totalprecip_in" ELSE "totalprecip_mm"
      [] label = "average visibility" -> IF imperial THEN "avgvis_miles" ELSE "avgvis_km"

\* the payload field a label of the current-conditions table shows
CurrentSource(label, imperial) ==
    CASE label = "temperature" -> IF imperial THEN "temp_f" ELSE "temp_c"
      [] label = "wind" -> IF imperial THEN "wind_mph" ELSE "wind_kph"
      [] label = "gusts" -> IF imperial THEN "gust_mph" ELSE "gust_kph"
      [] label = "pressure" -> IF imperial THEN "pressure_in" ELSE "pressure_mb"
      [] label = "precipitation" -> IF imperial THEN "precip_in" ELSE "precip_mm"
      [] label = "visibility" -> IF imperial THEN "vis_miles" ELSE "vis_km"

\* the unit suffix of a label
SuffixOf(label, imperial) ==
    CASE label \in {"temperature", "average", "low", "high"} ->
            IF imperial THEN "°F" ELSE "°C"
      [] label \in {"wind", "gusts"} -> IF imperial THEN "mph" ELSE "kph"
      [] label = "pressure" -> IF imperial THEN "inHg" ELSE "mb"
      [] label \in {"precipitation", "total precipitation"} ->
            IF imperial THEN "in" ELSE "mm"
      [] label \in {"visibility", "average visibility"} -> IF imperial THEN "mi" ELSE "km"

Suffixes(imperial) ==
    IF imperial THEN {"°F", "mph", "inHg", "in", "mi"} ELSE {"°C", "kph", "mb", "mm", "km"}

CurrentUnitLabels == {"temperature", "wind", "gusts", "pressure", "precipitation", "visibility"}

DayUnitLabels ==
    {"average", "low", "high", "gusts", "total precipitation", "average visibility"}

\* the str value shows the number x (or, for the metric pressure, its integer
\* part) followed by the suffix of the unit system, and neither a suffix nor
\* a field (of those the payload has) of the other unit system
ShowsField(value, obj, field, suffix, imperial, others) ==
    /\ \/ HasPrefix(value, Str(obj[field]))
       \/ field = "pressure_mb" /\ HasPrefix(value, Str(int(obj[field])))
    /\ suffix \in Range(value)
    /\ Range(value) \cap Suffixes(~imperial) = {}
    /\ \A f \in others \cap DOMAIN obj : ~HasPrefix(value, Str(obj[f]))

\* C15: whatever the length of forecast.forecastday, the normalized report
\* holds exactly 3 forecast tables, and table i is built from entry i of
\* forecast.forecastday.
C15_ThreeForecastTables ==
    Normalized =>
        /\ Len(report.forecast_tables) = 3
        /\ \A i \in 1..3 :
              HasPrefix(ValueOf(report.forecast_tables[i], "average"),
                        Str(data.forecast.forecastday[i].day[DaySource("average", Imperial)]))

\* C16: the current-conditions table and every forecast table have the fixed
\* label sequences, the same for every unit system.
C16_Labels ==
    Normalized =>
        /\ Labels(report.weather_table) =
              <<"temperature", "wind", "gusts", "pressure", "precipitation", "visibility",
                "humidity", "cloud cover", "UV index">>
        /\ \A i \in 1..Len(report.forecast_tables) :
              Labels(report.forecast_tables[i]) =
                  <<"average", "low", "high", "gusts", "total precipitation",
                    "average visibility", "chance of rain", "chance of snow", "uv index">>

\* a metric report with three forecast tables
C16_Witness ==
    /\ Normalized
    /\ config[UNITS] = <<"metric">>
    /\ Len(report.forecast_tables) = 3
    /\ Labels(report.weather_table)[2] = "wind"

\* C17: with units 'imperial' or 'metric', every unit-bearing value of the
\* current table and of the forecast tables shows the payload field of that
\* unit system with that system's suffix and nothing of the other system;
\* the temperature is temp_f and °F, or temp_c and °C.
C17_UnitsOfValues ==
    (Normalized /\ config[UNITS] \in {<<"imperial">>, <<"metric">>}) =>
        /\ ValueOf(report.weather_table, "temperature") =
              IF Imperial THEN Str(data.current.temp_f) \o <<"°F">>
              ELSE Str(data.current.temp_c) \o <<"°C">>
        /\ \A label \in CurrentUnitLabels :
              ShowsField(ValueOf(report.weather_table, label), data.current,
                         CurrentSource(label, Imperial), SuffixOf(label, Imperial), Imperial,
                         {CurrentSource(l, ~Imperial) : l \in CurrentUnitLabels})
        /\ \A i \in 1..Len(report.forecast_tables) :
              \A label \in DayUnitLabels :
                  ShowsField(ValueOf(report.forecast_tables[i], label),
                             data.forecast.forecastday[i].day,
                             DaySource(label, Imperial), SuffixOf(label, Imperial), Imperial,
                             {DaySource(l, ~Imperial) : l \in DayUnitLabels})

\* an imperial report of a payload with Celsius readings below zero
C17_Witness ==
    /\ Normalized
    /\ Imperial
    /\ data.current.temp_c.neg
    /\ Len(report.forecast_tables) = 3
    /\ ValueOf(report.weather_table, "temperature") = Str(data.current.temp_f) \o <<"°F">>

\* the date n days after dt, found by its day number
DatePlus(dt, n) ==
    CHOOSE d \in { [dt EXCEPT !.year = y, !.month = m, !.day = dd] :
                      y \in {dt.year, dt.year + 1}, m \in 1..12, dd \in 1..31 } :
        /\ d.day <= DaysInMonth(d.year, d.month)
        /\ Ordinal(d) = Ordinal(dt) + n

\* C18: in the rendered report the first forecast table is titled "Today's
\* Forecast" and forecast table N (N = 1, 2) is titled with the weekday,
\* the month and the day of the month of localtime plus N days.
C18_ForecastTitles ==
    pc = "rendered" =>
        /\ HasPrefix(rendered[1].today.title, <<"Today's Forecast">>)
        /\ rendered[1].today.rows = report.forecast_tables[1]
        /\ \A N \in 1..2 :
              LET date == DatePlus(report.localtime, N)
              IN  /\ HasPrefix(rendered[2][N].title,
                               <<WEEKDAYS[Weekday(date) + 1], ", ", MONTHS[date.month], " ",
                                 ToString(date.day)>>)
                  /\ rendered[2][N].rows = report.forecast_tables[N + 1]

\* a report for the last day of a year
C18_Witness ==
    /\ pc = "rendered"
    /\ data.location.localtime = LocaltimeText(2024, 12, 31)
    /\ rendered[2][1].title = <<"Wednesday", ", ", "January", " ", "1", "\n">>
    /\ rendered[2][2].title = <<"Thursday", ", ", "January", " ", "2", "\n">>

-----------------------------------------------------------------------------
(* Claims about the whole run *)

\* C19: something of the report is on the terminal only when the config was
\* resolved, the fetch returned a payload and the whole payload was
\* normalized, all without failure, and then it is the whole report; a run
\* ended by a fatal condition has rendered nothing.
C19_NoPartialReport ==
    /\ rendered # <<>> =>
          /\ pc = "rendered"
          /\ raised = ""
          /\ config # EmptyDict
          /\ Fetched /\ data = response.body
          /\ Normalized
          /\ Len(rendered) = 2
    /\ pc = "exited" => rendered = <<>>
    /\ (Fetched /\ response.is_json /\ "error" \in DOMAIN response.body) => rendered = <<>>
    /\ raised \in {"KeyError", "ValueError", "IndexError", "FileNotFoundError"} =>
          rendered = <<>>

\* a run that rendered the whole report
C19_Witness ==
    /\ pc = "rendered"
    /\ Len(rendered) = 2
    /\ rendered[1].location = <<"New", " ", "York", ", ", "New", " ", "York">>
    /\ Len(rendered[2]) = 2

-----------------------------------------------------------------------------
(* Claims about concurrent invocations *)

\* the rc file and its directory were missing, the directory's parent was not
MissingParentOnly == fs0.dirs = {"gp"} /\ ~fs0.rc_exists

\* C20: two invocations on a POSIX system that load the same missing rc path
\* (directory missing, its parent present): in every interleaving neither
\* fails, and when both have ended each has the all-empty entry and the rc
\* file holds exactly the skeleton.
C20_RaceHarmless ==
    (pc = "race" /\ MissingParentOnly /\ os_name = "posix") =>
        /\ \A p \in Procs : race[p].pc # "failed"
        /\ (\A p \in Procs : race[p].pc = "done") =>
              /\ \A p \in Procs : race[p].entry = AllEmpty
              /\ rc_exists
              /\ rc_content = Skel

-----------------------------------------------------------------------------
(* Claims about the lines of the rc file *)

IsBlank(raw) == Strip(raw) = <<>>

\* a blank line or a line whose first non-whitespace character is '#'
IsIgnorable(raw) == IsBlank(raw) \/ IsComment(raw)

\* the file with its blank lines and its commented lines removed
WithoutIgnorable(content) == SelectSeq(content, LAMBDA raw : ~IsIgnorable(raw))

\* the option o is set on a commented line of the file and on no other line
OnlyCommented(content, o) ==
    /\ \E i \in 1..Len(content) :
          /\ IsComment(content[i])
          /\ LineKey(Tail(Strip(content[i]))) = o
    /\ \A i \in 1..Len(content) :
          IsKeyValueLine(content[i]) => LineKey(content[i]) # o

\* C21: the load of an existing rc file ends as the load of the same file
\* without its blank and commented lines ends, with the same entry; an option
\* that is set only on a commented line is loaded as the empty string.
C21_IgnorableLines ==
    (Loaded /\ fs0.rc_exists) =>
        LET core == FillMissing(parse_rc(WithoutIgnorable(fs0.rc_content)))
        IN  /\ pc = "exited" <=> DeleteRaises(core)
            /\ pc # "exited" =>
                  /\ tempyrc = core
                  /\ \A o \in ValidSet :
                        OnlyCommented(fs0.rc_content, o) => tempyrc[o] = <<>>

\* a file with a commented location line and a units line was loaded
C21_Witness ==
    /\ pc = "rc_loaded"
    /\ fs0.rc_exists
    /\ fs0.rc_content = << <<"#", "location", "=", "NYC">>, <<"units", "=", "metric">> >>
    /\ tempyrc[LOCATION] = <<>>
    /\ tempyrc[UNITS] = <<"metric">>


\* C22: a line is split at its first '=' only: every recognized option of a
\* loaded entry is the trimmed, lowercased text after the first '=' of the
\* last line that sets it, a later '=' included.
C22_SplitAtFirstEquals ==
    (Loaded /\ fs0.rc_exists /\ pc # "exited") =>
        \A o \in ValidSet : tempyrc[o] = FileValue(fs0.rc_content, o)


\* the lines of the file that set the recognized option o
LinesSetting(content, o) ==
    {i \in 1..Len(content) : IsKeyValueLine(content[i]) /\ LineKey(content[i]) = o}

\* C23: when a recognized option is set on several lines of the rc file the
\* load completes, and the option has the value of the last of those lines,
\* also when that value is empty.
C23_LastOccurrenceWins ==
    \A o \in ValidSet :
        (Loaded /\ fs0.rc_exists /\ Cardinality(LinesSetting(fs0.rc_content, o)) >= 2) =>
            /\ pc # "exited"
            /\ tempyrc[o] = FileValue(fs0.rc_content, o)

-----------------------------------------------------------------------------
(* Claims about the numbers of the tables *)

\* the payload field every label of the current-conditions table shows
CurrentField(label, imperial) ==
    CASE label = "humidity" -> "humidity"
      [] label = "cloud cover" -> "cloud"
      [] label = "UV index" -> "uv"
      [] OTHER -> CurrentSource(label, imperial)

\* the payload field every label of a forecast table shows
DayField(label, imperial) ==
    CASE label = "chance of rain" -> "daily_chance_of_rain"
      [] label = "chance of snow" -> "daily_chance_of_snow"
      [] label = "uv index" -> "uv"
      [] OTHER -> DaySource(label, imperial)

\* the digits of x before the decimal point, with the sign x keeps when its
\* fraction is dropped
Truncated(x) == (IF x.neg /\ x.whole # 0 THEN <<"-">> ELSE <<>>) \o <<ToString(x.whole)>>

\* the value is the number x as the provider gave it, followed by no further
\* digit
PassedThrough(value, x) ==
    /\ HasPrefix(value, Str(x))
    /\ Len(value) > Len(Str(x)) => value[Len(Str(x)) + 1] \in {" ", "%", "°F", "°C"}

\* C24: the metric pressure is pressure_mb truncated towards zero and
\* followed by mb, the imperial pressure is pressure_in as given; every other
\* number of the current table and of the forecast tables is the payload's
\* number as given, in both unit systems.
C24_OnlyPressureTruncated ==
    Normalized =>
        /\ config[UNITS] = <<"metric">> =>
              ValueOf(report.weather_table, "pressure") =
                  Truncated(data.current.pressure_mb) \o <<" ", "mb">>
        /\ Imperial =>
              ValueOf(report.weather_table, "pressure") =
                  Str(data.current.pressure_in) \o <<" ", "inHg">>
        /\ \A label \in Range(Labels(report.weather_table)) \ {"pressure"} :
              PassedThrough(ValueOf(report.weather_table, label),
                            data.current[CurrentField(label, Imperial)])
        /\ \A i \in 1..Len(report.forecast_tables) :
              \A label \in Range(Labels(report.forecast_tables[i])) :
                  PassedThrough(ValueOf(report.forecast_tables[i], label),
                                data.forecast.forecastday[i].day[DayField(label, Imperial)])

\* a metric report of a payload whose pressure in millibars is below zero
\* with a fraction
C24_Witness ==
    /\ Normalized
    /\ config[UNITS] = <<"metric">>
    /\ data.current.pressure_mb.neg /\ data.current.pressure_mb.frac # 0
    /\ ValueOf(report.weather_table, "pressure") = <<"-", "125", " ", "mb">>
    /\ Len(report.forecast_tables) = 3

-----------------------------------------------------------------------------
(* Claims about the effects of the load on the file system *)

\* C25: the load of an rc file that exists leaves the file system as it was,
\* whatever the file contains: same content, no new directory, no skeleton
\* written; the file system differs from the initial one only when the file
\* was missing.
C25_ExistingFileNotWritten ==
    Loaded =>
        /\ fs0.rc_exists =>
              /\ rc_exists
              /\ rc_content = fs0.rc_content
              /\ dirs = fs0.dirs
        /\ <<dirs, rc_exists, rc_content>> # <<fs0.dirs, fs0.rc_exists, fs0.rc_content>> =>
              ~fs0.rc_exists

\* the load of an existing file with an unrecognized key ended and left the
\* file as it was
C25_Witness ==
    /\ pc = "exited"
    /\ raised = "RuntimeError"
    /\ fs0.rc_exists
    /\ fs0.rc_content = << <<"invalid", "=", "foo">>, <<"units", "=", "metric">> >>
    /\ rc_content = fs0.rc_content

-----------------------------------------------------------------------------
(* Claims about the order of the effects of a run *)

\* the run ended before a config was resolved
EndedUnresolved == pc = "exited" /\ config = EmptyDict

\* C26: a run that ends while its config is being resolved (missing
\* location, rejected --units value, unusable rc path) sends no request; a
\* request is sent only once a config with a non-empty location is resolved.
C26_NoRequestBeforeResolved ==
    /\ EndedUnresolved => requests = <<>>
    /\ requests # <<>> =>
          /\ config # EmptyDict
          /\ config[LOCATION] \notin {<<>>, None}
          /\ DOMAIN tempyrc = ValidSet
          /\ args # EmptyDict

\* a run ended by a rejected --units value without a request
C26_Witness ==
    /\ EndedUnresolved
    /\ exit_code = 2
    /\ argv = << <<"beijing">>, <<"-u">>, <<"lkf">> >>
    /\ requests = <<>>


\* the run was ended by the command-line parser or by the location check
EndedAfterLoad ==
    /\ pc = "exited"
    /\ \/ exit_code = 2
       \/ diag = MissingLocationMsg

\* C27: the rc file is loaded, and created with its directory when it was
\* missing, before the command line is parsed and before the location is
\* checked: a run that the parser or the location check then ends leaves the
\* new skeleton file on disk.
C27_SkeletonBeforeArgs ==
    /\ args # EmptyDict => DOMAIN tempyrc = ValidSet
    /\ (args # EmptyDict \/ EndedAfterLoad) =>
          /\ rc_exists
          /\ "parent" \in dirs
          /\ ~fs0.rc_exists => (rc_content = Skel /\ tempyrc = AllEmpty)

\* a run without a location that created the directory and the skeleton
C27_Witness ==
    /\ pc = "exited"
    /\ diag = MissingLocationMsg
    /\ ~fs0.rc_exists /\ fs0.dirs = {"gp"}
    /\ dirs = {"gp", "parent"}
    /\ rc_exists /\ rc_content = Skel

-----------------------------------------------------------------------------
(* Claims about the choice of the unit system *)

\* the payload has every field of both unit systems and a local time that
\* is a date
CompletePayload(d) ==
    /\ {"location", "current", "forecast"} \subseteq DOMAIN d
    /\ {"name", "region", "localtime"} \subseteq DOMAIN d.location
    /\ d.location.localtime.m \in 1..12
    /\ d.location.localtime.d \in 1..DaysInMonth(d.location.localtime.Y, d.location.localtime.m)
    /\ Range(CURRENT_KEYS) \cup {"wind_dir", "is_day", "condition"} \subseteq DOMAIN d.current
    /\ "forecastday" \in DOMAIN d.forecast
    /\ \A i \in DOMAIN d.forecast.forecastday :
          /\ "day" \in DOMAIN d.forecast.forecastday[i]
          /\ Range(DAY_KEYS) \subseteq DOMAIN d.forecast.forecastday[i].day

\* every unit-bearing value of the table carries the suffix of the system
TableIn(table, labels, imperial) ==
    \A label \in labels : SuffixOf(label, imperial) \in Range(ValueOf(table, label))

\* every table of the report is in the unit system
ReportIn(imperial) ==
    /\ TableIn(report.weather_table, CurrentUnitLabels, imperial)
    /\ \A i \in 1..Len(report.forecast_tables) :
          TableIn(report.forecast_tables[i], DayUnitLabels, imperial)

\* units values that are not exactly 'imperial': the empty string, other
\* spellings, an arbitrary string, and None
OtherUnits ==
    {<<>>, <<"metric">>, <<"kelvin">>, <<"Imperial">>, <<" ", "imperial">>, None}

\* C28: the tables are imperial only when units is exactly 'imperial'; with
\* every other units value they are the metric tables, and the
\* normalization of a complete payload completes whatever units is, to the
\* same result as for 'metric'.
C28_ImperialOnlyIfExact ==
    /\ Normalized =>
          IF config[UNITS] = <<"imperial">> THEN ReportIn(TRUE) ELSE ReportIn(FALSE)
    /\ (pc # "fetched" /\ data # EmptyDict /\ CompletePayload(data)) => Normalized
    /\ (data # EmptyDict /\ CompletePayload(data)) =>
          /\ \A u \in OtherUnits :
                /\ ~ParseKeyError(data, IsImperial(u))
                /\ parse(data, u) = parse(data, <<"metric">>)
          /\ parse(data, <<"imperial">>) # parse(data, <<"metric">>)

\* a report for the units 'kelvin' of the rc file, in metric units
C28_Witness ==
    /\ Normalized
    /\ config[UNITS] = <<"kelvin">>
    /\ Len(report.forecast_tables) = 3
    /\ ReportIn(FALSE)
    /\ ValueOf(report.weather_table, "temperature") = Str(data.current.temp_c) \o <<"°C">>

====
